---- MODULE Spec2Model ----
(***************************************************************************)
(* State-machine model of the view components of the portfolio tracker:    *)
(*   - the account management dialog (src/unnamed/part_000),               *)
(*   - the deposits/withdrawals table view (DepositsWithdrawalsContent.vue)*)
(*   - the NFT balance table view (NftBalanceTable.vue),                   *)
(*   - the history event type form (HistoryEventTypeForm.vue).             *)
(* Reactive watchers are modelled as the framework runs them: a write to a *)
(* watched source queues the watcher job, and the job runs once at the     *)
(* next flush with the current value and the value it saw at its last run. *)
(***************************************************************************)
EXTENDS Naturals, Integers, Sequences, FiniteSets, TLC

\* ------------------------------------------------------------------ bounds
\* Number of confirm() invocations followed per behaviour.
MaxConfirms == 2
\* Number of times the parent opens the dialog.
MaxSessions == 2
\* Form data values are 0..MaxData (compared structurally).
MaxData == 1

\* Number of fetchData calls followed per behaviour.
MaxFetches == 3
\* Number of background refreshes that complete per behaviour.
MaxRefresh == 2
\* Pages of the collection are 1..MaxPage; page p holds the rows p and p + 1.
MaxPage == 2
\* Length of the identifier lists assigned through the selection model.
MaxValues == 2
\* Number of ignore() calls outstanding at the same time.
MaxIgnores == 2

Confirms == 1..MaxConfirms
Chains == {"eth", "btc"}
DataValues == 0..MaxData
Modes == {"add", "edit"}

\* The management state: undefined, or { mode, chain, data }.
Undefined == [mode |-> "undefined", chain |-> "none", data |-> 0]
ManageStates == [mode : Modes, chain : Chains, data : DataValues]

VARIABLES
  \* ---- account management dialog
  model,          \* defineModel<AccountManageState | undefined>
  stateUpdated,   \* ref(false): the dirty flag
  errorMessages,  \* TRUE when useAccountManage holds error messages
  watchOld,       \* the value watch(model) saw at its last run
  modelQueued,    \* the watch(model) job is queued for the next flush
  confirms,       \* the confirm() invocations: position and dialog session
  log,            \* calls of save, 'complete' events and closes by confirm()
  session,        \* number of times the dialog was opened
  initial,        \* the management state the current session was opened with
  edited,         \* the form changed the management state in the current session
  \* ---- table views
  view,              \* the mounted component: "deposits" or "nft"
  locationOverview,  \* prop of the deposits view ('' on the main page)
  showIgnoredAssets, \* ref(false)
  filters,           \* usePaginationFilters: active filters
  sort,              \* usePaginationFilters: sort descriptor
  pagination,        \* usePaginationFilters: current page
  paramsQueued,      \* the fetcher's watcher of the request payload is queued
  loading,           \* isSectionLoading(Section.X): the section loading flag
  loadingOld,        \* the value watch(loading) saw at its last run
  loadingQueued,     \* the watch(loading) job is queued for the next flush
  loadingWrites,     \* writes of the flag in the tick of the latest flush
  seenRefreshes,     \* refreshes completed when the watcher last saw true -> false
  refreshes,         \* number of background refreshes completed so far
  mountPc,           \* position of the onMounted handler
  mountFetch,        \* the fetchData call the onMounted handler awaits
  mountCalls,        \* calls made by onMounted: fetchData, refresh
  inflight,          \* unresolved fetchData calls
  fetchCount,        \* number of fetchData calls started
  lastPayload,       \* request payload of the latest fetchData call
  state,             \* usePaginationFilters state: the fetched collection
  fetchError,        \* the fetcher's error state: the latest call failed
  selected,          \* useCommonTableProps: selected rows
  ignorePending,     \* number of ignore() calls that have not finished
  visibleColumns,    \* dashboardTablesVisibleColumns[DashboardTableType.NFT]
  values,            \* the identifier list last assigned through v-model="value"
  \* ---- history event type form
  eventType,               \* prop eventType ('' when none is chosen)
  eventSubtype,            \* prop eventSubtype ('' when none is chosen)
  validator,               \* prop v$: the $dirty flags of the two validators
  disableWarning,          \* prop disableWarning
  historyTypeCombination,  \* getEventTypeData(...): the resolved combination
  globalMapping,           \* historyEventTypeGlobalMapping
  \* ---- all
  last            \* the operation that produced the current state

tableVars == <<view, locationOverview, showIgnoredAssets, filters, sort, pagination,
               paramsQueued, loading, loadingOld, loadingQueued, loadingWrites,
               seenRefreshes, refreshes, mountPc, mountFetch, mountCalls, inflight,
               fetchCount, lastPayload, state, selected, ignorePending, visibleColumns,
               values, fetchError>>

dialogVars == <<model, stateUpdated, errorMessages, watchOld, modelQueued,
                confirms, log, session, initial, edited>>

formVars == <<eventType, eventSubtype, validator, disableWarning,
              historyTypeCombination, globalMapping>>

vars == <<dialogVars, tableVars, formVars, last>>

IdleConfirm == [pc |-> "idle", session |-> 0, dismissed |-> FALSE]

Ev(e, i) == [ev |-> e, by |-> i]

\* lodash isEqual on the form data: structural equality.
isEqual(a, b) == a = b

\* ------------------------------------------- the history event type form

\* historyEventTypesData: the identifiers of the event types offered.
EventTypes == {"trade", "deposit"}
\* historyEventSubTypesData: the identifiers of the full sub-type list, in order.
historyEventSubTypesData == <<"spend", "fee", "none">>
\* The keys a global mapping entry may hold ("removed" is no listed sub-type).
MappingKeys == {"fee", "spend", "removed"}
\* historyEventTypeGlobalMapping: entries for some event types, each an
\* object whose keys are sub-type identifiers.
GlobalMappings == UNION {[D -> SUBSET MappingKeys] : D \in SUBSET EventTypes}
\* The resolved combination: its identifier is undefined when it is unknown.
Combinations == [identifier : {"undefined", "combination"}]
Validators == [eventType : [dirty : BOOLEAN], eventSubtype : [dirty : BOOLEAN]]

\* Form state while no form is mounted.
FormState0 ==
  /\ eventType = ""
  /\ eventSubtype = ""
  /\ validator = [eventType |-> [dirty |-> FALSE], eventSubtype |-> [dirty |-> FALSE]]
  /\ disableWarning = FALSE
  /\ historyTypeCombination = [identifier |-> "undefined"]
  /\ globalMapping = [t \in {} |-> {}]

\* The elements of a list.
Range(s) == {s[i] : i \in 1..Len(s)}

\* Mutant: an event type without a mapping entry offers every sub-type.
historyEventSubTypeFilteredData_AllWhenUnmapped(eventTypeVal, allData, mapping) ==
  IF eventTypeVal = "" \/ eventTypeVal \notin DOMAIN mapping
    THEN allData
    ELSE SelectSeq(allData, LAMBDA data : data \in mapping[eventTypeVal])

\* const historyEventSubTypeFilteredData = computed(() => { ... })
historyEventSubTypeFilteredData(eventTypeVal, allData, mapping) ==
  IF eventTypeVal = ""
    THEN allData
    ELSE LET globalMappingKeys == IF eventTypeVal \in DOMAIN mapping
                                    THEN mapping[eventTypeVal]
                                    ELSE {}
         IN SelectSeq(allData, LAMBDA data : data \in globalMappingKeys)

\* Mutant: the warning needs both validators to be dirty.
showHistoryEventTypeCombinationWarning_BothDirty(v, combination) ==
  IF ~v.eventType.dirty \/ ~v.eventSubtype.dirty
    THEN FALSE
    ELSE combination.identifier = "undefined"

\* const showHistoryEventTypeCombinationWarning = computed(() => { ... })
showHistoryEventTypeCombinationWarning(v, combination) ==
  IF ~v.eventType.dirty /\ ~v.eventSubtype.dirty
    THEN FALSE
    ELSE combination.identifier = "undefined"

\* RuiAlert v-if="!disableWarning && showHistoryEventTypeCombinationWarning"
alertDisplayed ==
  ~disableWarning /\ showHistoryEventTypeCombinationWarning(validator, historyTypeCombination)

\* emit('update:...', newValue || ''): null and '' are passed on as ''.
OrEmpty(newValue) == IF newValue = "null" THEN "" ELSE newValue

\* The form after setup(), for any props and any global mapping.
FormInit ==
  /\ eventType \in EventTypes \cup {""}
  /\ eventSubtype \in Range(historyEventSubTypesData) \cup {""}
  /\ validator \in Validators
  /\ disableWarning \in BOOLEAN
  /\ historyTypeCombination \in Combinations
  /\ globalMapping \in GlobalMappings

\* RuiAutoComplete v-model="eventTypeModel": the user picks or clears the event
\* type; the parent passes the emitted value back as the prop and the
\* combination is resolved again.
SelectEventType ==
  /\ \E newValue \in EventTypes \cup {"null"} : eventType' = OrEmpty(newValue)
  /\ historyTypeCombination' \in Combinations
  /\ last' = "SelectEventType"
  /\ UNCHANGED <<eventSubtype, validator, disableWarning, globalMapping>>

\* RuiAutoComplete v-model="eventSubtypeModel": the user picks one of the
\* offered sub-types or clears the field.
SelectEventSubtype ==
  /\ \E newValue \in Range(historyEventSubTypeFilteredData(
                          eventType, historyEventSubTypesData, globalMapping)) \cup {"null"} :
       eventSubtype' = OrEmpty(newValue)
  /\ historyTypeCombination' \in Combinations
  /\ last' = "SelectEventSubtype"
  /\ UNCHANGED <<eventType, validator, disableWarning, globalMapping>>

\* @blur="v$.eventType.$touch()"
BlurEventType ==
  /\ validator' = [validator EXCEPT !.eventType.dirty = TRUE]
  /\ last' = "BlurEventType"
  /\ UNCHANGED <<eventType, eventSubtype, disableWarning, historyTypeCombination, globalMapping>>

\* @blur="v$.eventSubtype.$touch()"
BlurEventSubtype ==
  /\ validator' = [validator EXCEPT !.eventSubtype.dirty = TRUE]
  /\ last' = "BlurEventSubtype"
  /\ UNCHANGED <<eventType, eventSubtype, disableWarning, historyTypeCombination, globalMapping>>

\* ------------------------------------------------------------- the dialog

DialogState0 ==
  /\ model = Undefined
  /\ stateUpdated = FALSE
  /\ errorMessages = FALSE
  /\ watchOld = Undefined
  /\ modelQueued = FALSE
  /\ confirms = [i \in Confirms |-> IdleConfirm]
  /\ log = <<>>
  /\ session = 0
  /\ initial = Undefined
  /\ edited = FALSE

\* set(model, v): a write of a new value queues the watcher job.
SetModel(v) ==
  /\ model' = v
  /\ modelQueued' = (modelQueued \/ v # Undefined \/ model # Undefined)

\* Mutant: dismiss() leaves the management state as it is.
dismiss_KeepsState == UNCHANGED <<model, modelQueued>>

\* function dismiss() { set(model, undefined) }
dismiss == SetModel(Undefined)

\* The parent opens the dialog with a management state (add or edit): a user
\* event, after the pending flush.
ParentOpen ==
  /\ model = Undefined
  /\ ~modelQueued
  /\ session < MaxSessions
  /\ \E m \in ManageStates :
       /\ SetModel(m)
       /\ initial' = m
  /\ session' = session + 1
  /\ edited' = FALSE
  /\ last' = "ParentOpen"
  /\ UNCHANGED <<stateUpdated, errorMessages, watchOld, confirms, log>>

\* AccountForm v-model="model": the form emits a management state and the
\* dialog assigns whatever it emits to the model.
FormUpdate ==
  /\ model # Undefined
  /\ \E m \in ManageStates :
       /\ SetModel(m)
       /\ edited' = (edited \/ m # model)
  /\ last' = "FormUpdate"
  /\ UNCHANGED <<stateUpdated, errorMessages, watchOld, confirms, log, session, initial>>

\* AccountForm v-model:error-messages="errorMessages": the form emits error
\* messages (TRUE when there are some) and the dialog assigns them.
FormUpdateErrorMessages ==
  /\ model # Undefined
  /\ \E messages \in BOOLEAN : errorMessages' = messages
  /\ last' = "FormUpdateErrorMessages"
  /\ UNCHANGED <<model, stateUpdated, watchOld, modelQueued, confirms, log, session,
                 initial, edited>>

\* Mutant: the callback keeps the flag when the dialog opens or closes.
WatchModelCallback_NoReset(new, old) ==
  IF new = Undefined \/ old = Undefined
    THEN stateUpdated
    ELSE IF new.chain = old.chain /\ ~isEqual(new.data, old.data)
      THEN TRUE
      ELSE stateUpdated

\* Mutant: the callback recomputes the flag at every run.
WatchModelCallback_Recomputes(new, old) ==
  IF new = Undefined \/ old = Undefined
    THEN FALSE
    ELSE new.chain = old.chain /\ ~isEqual(new.data, old.data)

\* The callback of watch(model, (model, oldModel) => ..., { deep: true }).
WatchModelCallback(new, old) ==
  IF new = Undefined \/ old = Undefined
    THEN FALSE
    ELSE IF new.chain = old.chain /\ ~isEqual(new.data, old.data)
      THEN TRUE
      ELSE stateUpdated

\* The flush: the queued watcher job runs with the current and the last seen value.
WatchModel ==
  /\ modelQueued
  /\ stateUpdated' = WatchModelCallback(model, watchOld)
  /\ watchOld' = model
  /\ modelQueued' = FALSE
  /\ last' = "WatchModel"
  /\ UNCHANGED <<model, errorMessages, confirms, log, session, initial, edited>>

\* BigDialog @cancel="dismiss()": a user event, after the pending flush.
Dismiss ==
  /\ model # Undefined
  /\ ~modelQueued
  /\ dismiss
  /\ confirms' = [i \in Confirms |->
       IF confirms[i].pc = "saving" /\ confirms[i].session = session
         THEN [confirms[i] EXCEPT !.dismissed = TRUE]
         ELSE confirms[i]]
  /\ last' = "Dismiss"
  /\ UNCHANGED <<stateUpdated, errorMessages, watchOld, log, session, initial, edited>>

\* confirm() up to `await accountForm.validate()`.
ConfirmCall(i) ==
  /\ model # Undefined
  /\ ~modelQueued
  /\ confirms[i].pc = "idle"
  /\ \A j \in Confirms : j < i => confirms[j].pc # "idle"
  /\ errorMessages' = FALSE
  /\ confirms' = [confirms EXCEPT ![i] = [@ EXCEPT !.pc = "validating", !.session = session]]
  /\ last' = "ConfirmCall"
  /\ UNCHANGED <<model, stateUpdated, watchOld, modelQueued, log, session, initial, edited>>

\* Mutant: save(state) is called before the validation result is looked at.
ConfirmAfterValidate_SavesFirst(i, valid) ==
  /\ confirms[i].pc = "validating"
  /\ ~modelQueued
  /\ IF model = Undefined
       THEN /\ confirms' = [confirms EXCEPT ![i] = [@ EXCEPT !.pc = "asserted"]]
            /\ log' = log
       ELSE /\ confirms' = [confirms EXCEPT ![i] =
                 [@ EXCEPT !.pc = IF valid THEN "saving" ELSE "invalid"]]
            /\ log' = Append(log, Ev("save", i))
  /\ last' = "ConfirmAfterValidate"
  /\ UNCHANGED <<model, stateUpdated, errorMessages, watchOld, modelQueued, session, initial, edited>>

\* confirm() from the resolution of validate() up to `await save(state)`.
ConfirmAfterValidate(i, valid) ==
  /\ confirms[i].pc = "validating"
  /\ ~modelQueued
  /\ IF ~valid
       THEN /\ confirms' = [confirms EXCEPT ![i] = [@ EXCEPT !.pc = "invalid"]]
            /\ log' = log
       ELSE IF model = Undefined
         THEN /\ confirms' = [confirms EXCEPT ![i] = [@ EXCEPT !.pc = "asserted"]]
              /\ log' = log
         ELSE /\ confirms' = [confirms EXCEPT ![i] = [@ EXCEPT !.pc = "saving"]]
              /\ log' = Append(log, Ev("save", i))
  /\ last' = "ConfirmAfterValidate"
  /\ UNCHANGED <<model, stateUpdated, errorMessages, watchOld, modelQueued, session, initial, edited>>

\* Mutant: the dialog is closed whatever save(state) reported.
ConfirmAfterSave_ClosesAlways(i, success) ==
  /\ confirms[i].pc = "saving"
  /\ ~modelQueued
  /\ log' = IF success
              THEN Append(Append(log, Ev("complete", i)), Ev("close", i))
              ELSE Append(log, Ev("close", i))
  /\ dismiss
  /\ confirms' = [confirms EXCEPT ![i] = [@ EXCEPT !.pc = IF success THEN "saved" ELSE "failed"]]
  /\ errorMessages' = errorMessages
  /\ last' = "ConfirmAfterSave"
  /\ UNCHANGED <<stateUpdated, watchOld, session, initial, edited>>

\* confirm() from the resolution of save(state) to its end.
ConfirmAfterSave(i, success) ==
  /\ confirms[i].pc = "saving"
  /\ ~modelQueued
  /\ IF success
       THEN /\ log' = Append(Append(log, Ev("complete", i)), Ev("close", i))
            /\ dismiss
            /\ confirms' = [confirms EXCEPT ![i] = [@ EXCEPT !.pc = "saved"]]
            /\ errorMessages' = errorMessages
       ELSE /\ log' = log
            /\ UNCHANGED <<model, modelQueued>>
            /\ confirms' = [confirms EXCEPT ![i] = [@ EXCEPT !.pc = "failed"]]
            /\ errorMessages' \in BOOLEAN
  /\ last' = "ConfirmAfterSave"
  /\ UNCHANGED <<stateUpdated, watchOld, session, initial, edited>>

DialogNext ==
  /\ \/ ParentOpen
     \/ FormUpdate
     \/ FormUpdateErrorMessages
     \/ WatchModel
     \/ Dismiss
     \/ \E i \in Confirms : ConfirmCall(i)
     \/ \E i \in Confirms, valid \in BOOLEAN : ConfirmAfterValidate(i, valid)
     \/ \E i \in Confirms, success \in BOOLEAN : ConfirmAfterSave(i, success)
  /\ UNCHANGED tableVars
  /\ UNCHANGED formVars

\* --------------------------------------------------------- the table views

Views == {"deposits", "nft"}
Rows == 1..(MaxPage + 1)
\* The rows (by identifier) the backend returns for a page.
PageRows(p) == <<p, p + 1>>
EmptyCollection == [data |-> <<>>, fetchedAt |-> 0]
NoPayload == [none |-> TRUE]

\* The optional columns of the dashboard tables (enum TableColumn).
TableColumns ==
  {"PERCENTAGE_OF_TOTAL_NET_VALUE", "PERCENTAGE_OF_TOTAL_CURRENT_GROUP",
   "PERCENTAGE_OF_PREVIOUS_GROUP"}

\* Array.prototype.includes
includes(s, x) == \E i \in 1..Len(s) : s[i] = x

\* The visible-columns settings: lists of optional columns without repetition.
VisibleColumnsSettings ==
  {s \in UNION {[1..n -> TableColumns] : n \in 0..Cardinality(TableColumns)} :
     \A i, j \in 1..Len(s) : i # j => s[i] # s[j]}

\* Table state while no table view is mounted.
TableState0 ==
  /\ view = "none"
  /\ visibleColumns = <<>>
  /\ values = <<>>
  /\ locationOverview = ""
  /\ showIgnoredAssets = FALSE
  /\ filters = "none"
  /\ sort = "default"
  /\ pagination = 1
  /\ paramsQueued = FALSE
  /\ loading = FALSE
  /\ loadingOld = FALSE
  /\ loadingQueued = FALSE
  /\ loadingWrites = 0
  /\ seenRefreshes = 0
  /\ refreshes = 0
  /\ mountPc = "setup"
  /\ mountFetch = 0
  /\ mountCalls = [fetchData |-> 0, refresh |-> 0]
  /\ inflight = {}
  /\ fetchCount = 0
  /\ lastPayload = NoPayload
  /\ state = EmptyCollection
  /\ fetchError = FALSE
  /\ selected = <<>>
  /\ ignorePending = 0

\* const mainPage = computed(() => get(locationOverview) === '')
mainPage == locationOverview = ""

\* Mutant: the flag is passed on without the negation.
extraParams_NotNegated ==
  IF view = "deposits"
    THEN [excludeIgnoredAssets |-> showIgnoredAssets]
    ELSE [ignoredAssetsHandling |-> "exclude"]

\* The request payload: the pagination and the extra parameters.
Payload(extra) == [page |-> pagination, extra |-> extra]

\* Array.prototype.splice(start, deleteCount) on a 0-based array: the array
\* without the deleteCount elements that follow the first `start` ones.
splice(s, start, deleteCount) ==
  SubSeq(s, 1, start) \o SubSeq(s, start + deleteCount + 1, Len(s))

\* The column keys of the deposits/withdrawals headers, as declared.
DepositsHeaders ==
  <<"ignoredInAccounting", "location", "category", "asset", "amount", "fee", "timestamp">>

\* Mutant: the overview drops the first column instead of the second.
DepositsTableHeaders_DropsFirst(overview) ==
  IF overview THEN splice(DepositsHeaders, 0, 1) ELSE DepositsHeaders

\* tableHeaders of the deposits/withdrawals view: if (overview) headers.splice(1, 1)
DepositsTableHeaders(overview) ==
  IF overview THEN splice(DepositsHeaders, 1, 1) ELSE DepositsHeaders

\* Mutant: the two optional columns are pushed in the other order.
NftTableHeaders_Swapped(visible) ==
  <<"name", "priceInAsset", "usdPrice">>
    \o (IF includes(visible, "PERCENTAGE_OF_TOTAL_CURRENT_GROUP")
          THEN <<"percentageOfTotalCurrentGroup">> ELSE <<>>)
    \o (IF includes(visible, "PERCENTAGE_OF_TOTAL_NET_VALUE")
          THEN <<"percentageOfTotalNetValue">> ELSE <<>>)

\* tableHeaders of the NFT balance table: three fixed headers, then a push
\* for each optional column that visibleColumns includes.
NftTableHeaders(visible) ==
  <<"name", "priceInAsset", "usdPrice">>
    \o (IF includes(visible, "PERCENTAGE_OF_TOTAL_NET_VALUE")
          THEN <<"percentageOfTotalNetValue">> ELSE <<>>)
    \o (IF includes(visible, "PERCENTAGE_OF_TOTAL_CURRENT_GROUP")
          THEN <<"percentageOfTotalCurrentGroup">> ELSE <<>>)

\* RowAppend :right-patch-colspan="tableHeaders.length - 3"
rightPatchColspan(headers) == Len(headers) - 3

\* const extraParams = computed(() => ({ excludeIgnoredAssets: !get(showIgnoredAssets) }))
\* (the NFT view passes the fixed ignoredAssetsHandling: 'exclude').
extraParams ==
  IF view = "deposits"
    THEN [excludeIgnoredAssets |-> ~showIgnoredAssets]
    ELSE [ignoredAssetsHandling |-> "exclude"]

\* The state after setup(): the watcher of `loading` holds the flag's value.
TableInit ==
  /\ DialogState0
  /\ FormState0
  /\ view \in Views
  /\ locationOverview \in (IF view = "deposits" THEN {"", "kraken"} ELSE {""})
  /\ visibleColumns \in (IF view = "nft" THEN VisibleColumnsSettings ELSE {<<>>})
  /\ values = <<>>
  /\ showIgnoredAssets = FALSE
  /\ filters = "none"
  /\ sort = "default"
  /\ pagination = 1
  /\ paramsQueued = FALSE
  /\ loading \in BOOLEAN
  /\ loadingOld = loading
  /\ loadingQueued = FALSE
  /\ loadingWrites = 0
  /\ seenRefreshes = 0
  /\ refreshes = 0
  /\ mountPc = "setup"
  /\ mountFetch = 0
  /\ mountCalls = [fetchData |-> 0, refresh |-> 0]
  /\ inflight = {}
  /\ fetchCount = 0
  /\ lastPayload = NoPayload
  /\ state = EmptyCollection
  /\ fetchError = FALSE
  /\ selected = <<>>
  /\ ignorePending = 0
  /\ last = "Init"

\* The fetchData calls that may still be started within the bound.
CanFetch == fetchCount < MaxFetches

\* No watcher job is queued: the flush of the previous tick is done. User
\* events, timers and network resolutions run in a tick of their own.
NewTick == ~loadingQueued /\ ~paramsQueued

\* fetchData(): a call of the fetcher with the current request payload.
fetchData ==
  /\ fetchCount' = fetchCount + 1
  /\ inflight' = inflight \cup {[id |-> fetchCount + 1, startedAt |-> refreshes]}
  /\ lastPayload' = Payload(extraParams)

NoFetch == UNCHANGED <<fetchCount, inflight, lastPayload>>

\* A write of the section loading flag by the status store.
SetLoading(b) ==
  /\ loading' = b
  /\ loadingQueued' = (loadingQueued \/ b # loading)
  /\ loadingWrites' = IF b = loading THEN loadingWrites
                      ELSE IF loadingQueued THEN loadingWrites + 1 ELSE 1

\* refreshAssetMovements() / refreshNonFungibleBalances(): the refresh starts
\* (the section goes to loading) unless the store skips it.
refresh(starts) ==
  IF starts /\ ~loading
    THEN SetLoading(TRUE)
    ELSE UNCHANGED <<loading, loadingQueued, loadingWrites>>

\* Mutant: onMounted calls the refresh without awaiting fetchData.
OnMounted_NoAwait ==
  /\ mountPc = "setup"
  /\ CanFetch
  /\ fetchData
  /\ mountFetch' = fetchCount + 1
  /\ \E starts \in BOOLEAN : refresh(starts)
  /\ mountCalls' = [fetchData |-> mountCalls.fetchData + 1, refresh |-> mountCalls.refresh + 1]
  /\ mountPc' = "done"
  /\ UNCHANGED <<fetchError, visibleColumns, values, view, locationOverview, showIgnoredAssets, filters, sort, pagination,
                 paramsQueued, loadingOld, seenRefreshes, refreshes, state, selected, ignorePending>>

\* onMounted(async () => { await fetchData(); ... }): up to the await.
OnMounted ==
  /\ mountPc = "setup"
  /\ CanFetch
  /\ fetchData
  /\ mountFetch' = fetchCount + 1
  /\ mountCalls' = [mountCalls EXCEPT !.fetchData = @ + 1]
  /\ mountPc' = "fetching"
  /\ UNCHANGED <<fetchError, visibleColumns, values, view, locationOverview, showIgnoredAssets, filters, sort, pagination,
                 paramsQueued, loading, loadingOld, loadingQueued, loadingWrites, seenRefreshes, refreshes, state,
                 selected, ignorePending>>

DepositsOnMounted == view = "deposits" /\ OnMounted /\ last' = "OnMounted" /\ UNCHANGED dialogVars

NftOnMounted == view = "nft" /\ OnMounted /\ last' = "OnMounted" /\ UNCHANGED dialogVars

\* The fetcher applies a result only if the call succeeded and no later
\* fetchData call superseded it; otherwise the collection is kept.
ApplyResult(f, ok) ==
  IF f.id = fetchCount /\ ok
    THEN [data |-> PageRows(lastPayload.page), fetchedAt |-> f.startedAt]
    ELSE state

\* The fetcher's error state after a call resolved: that of the latest call.
ErrorAfter(f, ok) == IF f.id = fetchCount THEN ~ok ELSE fetchError

\* A fetchData call resolves, with a result or with a failure that stays in
\* the fetcher's error state; the onMounted handler awaiting it goes on to
\* `await refresh...()`.
FetchResolved ==
  /\ NewTick
  /\ \E f \in inflight :
       /\ inflight' = inflight \ {f}
       /\ \E ok \in BOOLEAN :
            /\ state' = ApplyResult(f, ok)
            /\ fetchError' = ErrorAfter(f, ok)
       /\ IF mountPc = "fetching" /\ f.id = mountFetch
            THEN /\ \E starts \in BOOLEAN : refresh(starts)
                 /\ mountCalls' = [mountCalls EXCEPT !.refresh = @ + 1]
                 /\ mountPc' = "done"
            ELSE UNCHANGED <<loading, loadingQueued, loadingWrites, mountCalls, mountPc>>
  /\ last' = "FetchResolved"
  /\ UNCHANGED <<view, locationOverview, showIgnoredAssets, filters, sort, pagination,
                 paramsQueued, loadingOld, seenRefreshes, refreshes, mountFetch, fetchCount,
                 lastPayload, selected, ignorePending, values, visibleColumns>>
  /\ UNCHANGED dialogVars

\* Mutant: the watcher fetches when a refresh starts, not when it completes.
WatchLoadingCallback_OnStart(isLoading, wasLoading) == isLoading /\ ~wasLoading

\* Mutant: the watcher fetches on every change of the flag.
WatchLoadingCallback_AnyChange(isLoading, wasLoading) == isLoading # wasLoading

\* watch(loading, async (isLoading, wasLoading) => { if (!isLoading && wasLoading) await fetchData(); })
\* TRUE when the callback calls fetchData.
WatchLoadingCallback(isLoading, wasLoading) == ~isLoading /\ wasLoading

\* The flush: the queued job runs once, and calls the callback only if the
\* flag differs from the value seen at the last run.
WatchLoading ==
  /\ loadingQueued
  /\ IF loading # loadingOld /\ WatchLoadingCallback(loading, loadingOld)
       THEN CanFetch /\ fetchData
       ELSE NoFetch
  /\ seenRefreshes' = IF loadingOld /\ ~loading THEN refreshes ELSE seenRefreshes
  /\ loadingOld' = loading
  /\ loadingQueued' = FALSE
  /\ UNCHANGED <<fetchError, visibleColumns, values, view, locationOverview, showIgnoredAssets, filters, sort, pagination,
                 paramsQueued, loading, loadingWrites, refreshes, mountPc, mountFetch, mountCalls,
                 state, selected, ignorePending>>

DepositsWatchLoading == view = "deposits" /\ WatchLoading /\ last' = "WatchLoading" /\ UNCHANGED dialogVars

NftWatchLoading == view = "nft" /\ WatchLoading /\ last' = "WatchLoading" /\ UNCHANGED dialogVars

\* A background refresh of the section starts: the status store sets the flag.
RefreshStart ==
  /\ mountPc # "setup"
  /\ ~loading
  /\ refreshes < MaxRefresh
  /\ SetLoading(TRUE)
  /\ last' = "RefreshStart"
  /\ UNCHANGED <<fetchError, visibleColumns, values, view, locationOverview, showIgnoredAssets, filters, sort, pagination,
                 paramsQueued, loadingOld, seenRefreshes, refreshes, mountPc, mountFetch, mountCalls,
                 inflight, fetchCount, lastPayload, state, selected, ignorePending>>
  /\ UNCHANGED dialogVars

\* A background refresh completes: new data is stored, the flag is cleared.
RefreshComplete ==
  /\ mountPc # "setup"
  /\ loading
  /\ refreshes < MaxRefresh
  /\ refreshes' = refreshes + 1
  /\ SetLoading(FALSE)
  /\ last' = "RefreshComplete"
  /\ UNCHANGED <<fetchError, visibleColumns, values, view, locationOverview, showIgnoredAssets, filters, sort, pagination,
                 paramsQueued, loadingOld, seenRefreshes, mountPc, mountFetch, mountCalls,
                 inflight, fetchCount, lastPayload, state, selected, ignorePending>>
  /\ UNCHANGED dialogVars


\* RuiSwitch v-model="showIgnoredAssets": the user toggles the switch.
ToggleShowIgnored ==
  /\ view = "deposits" /\ mainPage
  /\ mountPc # "setup"
  /\ NewTick /\ CanFetch
  /\ showIgnoredAssets' = ~showIgnoredAssets
  /\ paramsQueued' = TRUE
  /\ last' = "ToggleShowIgnored"
  /\ UNCHANGED <<fetchError, visibleColumns, values, view, locationOverview, filters, sort, pagination, loading, loadingOld,
                 loadingQueued, loadingWrites, seenRefreshes, refreshes, mountPc, mountFetch, mountCalls, inflight,
                 fetchCount, lastPayload, state, selected, ignorePending>>
  /\ UNCHANGED dialogVars

\* The user changes the page, the sort or the filters through the table.
SetPage ==
  /\ mountPc # "setup"
  /\ NewTick /\ CanFetch
  /\ \E p \in 1..MaxPage : p # pagination /\ pagination' = p
  /\ paramsQueued' = TRUE
  /\ last' = "SetPage"
  /\ UNCHANGED <<fetchError, visibleColumns, values, view, locationOverview, showIgnoredAssets, filters, sort, loading,
                 loadingOld, loadingQueued, loadingWrites, seenRefreshes, refreshes, mountPc, mountFetch, mountCalls,
                 inflight, fetchCount, lastPayload, state, selected, ignorePending>>
  /\ UNCHANGED dialogVars

SetSort ==
  /\ mountPc # "setup"
  /\ NewTick /\ CanFetch
  /\ sort' = (IF sort = "default" THEN "amount" ELSE "default")
  /\ paramsQueued' = TRUE
  /\ last' = "SetSort"
  /\ UNCHANGED <<fetchError, visibleColumns, values, view, locationOverview, showIgnoredAssets, filters, pagination, loading,
                 loadingOld, loadingQueued, loadingWrites, seenRefreshes, refreshes, mountPc, mountFetch, mountCalls,
                 inflight, fetchCount, lastPayload, state, selected, ignorePending>>
  /\ UNCHANGED dialogVars

SetFilters ==
  /\ view = "deposits" /\ mainPage
  /\ mountPc # "setup"
  /\ NewTick /\ CanFetch
  /\ filters' = (IF filters = "none" THEN "asset" ELSE "none")
  /\ paramsQueued' = TRUE
  /\ last' = "SetFilters"
  /\ UNCHANGED <<fetchError, visibleColumns, values, view, locationOverview, showIgnoredAssets, sort, pagination, loading,
                 loadingOld, loadingQueued, loadingWrites, seenRefreshes, refreshes, mountPc, mountFetch, mountCalls,
                 inflight, fetchCount, lastPayload, state, selected, ignorePending>>
  /\ UNCHANGED dialogVars

\* The route query the fetcher writes for the extra parameters (history: 'router').
RouteQuery(extra) ==
  [excludeIgnoredAssets |-> IF extra.excludeIgnoredAssets THEN "true" ELSE "false"]

\* onUpdateFilters(query) { set(showIgnoredAssets, query.excludeIgnoredAssets === 'false') }
onUpdateFilters(query) == query.excludeIgnoredAssets = "false"

\* The fetcher's watcher of the request payload: on the main page the payload
\* goes through the route query and onUpdateFilters; one fetchData per change.
ParamsWatch ==
  /\ paramsQueued
  /\ CanFetch
  /\ fetchData
  /\ paramsQueued' = FALSE
  /\ showIgnoredAssets' = IF view = "deposits" /\ mainPage
                            THEN onUpdateFilters(RouteQuery(extraParams))
                            ELSE showIgnoredAssets
  /\ last' = "ParamsWatch"
  /\ UNCHANGED <<fetchError, visibleColumns, values, view, locationOverview, filters, sort, pagination,
                 loading, loadingOld, loadingQueued, loadingWrites, seenRefreshes, refreshes, mountPc, mountFetch,
                 mountCalls, state, selected, ignorePending>>
  /\ UNCHANGED dialogVars

\* useHistoryAutoRefresh(fetchData): the periodic refresh calls fetchData.
AutoRefresh ==
  /\ view = "deposits"
  /\ mountPc # "setup"
  /\ NewTick
  /\ CanFetch
  /\ fetchData
  /\ last' = "AutoRefresh"
  /\ UNCHANGED <<fetchError, visibleColumns, values, view, locationOverview, showIgnoredAssets, filters, sort, pagination,
                 paramsQueued, loading, loadingOld, loadingQueued, loadingWrites, seenRefreshes, refreshes, mountPc,
                 mountFetch, mountCalls, state, selected, ignorePending>>
  /\ UNCHANGED dialogVars

\* The identifier lists the table assigns: row identifiers without repetition.
IdLists ==
  {s \in UNION {[1..n -> Rows] : n \in 0..MaxValues} :
     \A i, j \in 1..Len(s) : i # j => s[i] # s[j]}

\* Mutant: the assigned identifiers are taken as the selection.
FilterRows_KeepsAssigned(data, V) == V

\* get(assetMovements).data.filter(({ identifier }) => values?.includes(identifier))
FilterRows(data, V) == SelectSeq(data, LAMBDA r : includes(V, r))

\* value.get: the identifiers of the selected rows; undefined off the main page.
value == IF ~mainPage THEN <<"undefined">> ELSE selected

\* value.set: RuiDataTable v-model="value" assigns a list of identifiers.
SelectRows ==
  /\ view = "deposits" /\ mainPage
  /\ mountPc # "setup"
  /\ NewTick
  /\ \E V \in IdLists :
       /\ selected' = FilterRows(state.data, V)
       /\ values' = V
  /\ last' = "SelectRows"
  /\ UNCHANGED <<view, locationOverview, showIgnoredAssets, filters, sort, pagination,
                 paramsQueued, loading, loadingOld, loadingQueued, loadingWrites, seenRefreshes, refreshes, mountPc,
                 mountFetch, mountCalls, inflight, fetchCount, lastPayload, state,
                 ignorePending, visibleColumns, fetchError>>
  /\ UNCHANGED dialogVars

\* Mutant: clearing the selection also asks the fetcher for the page again.
ClearSelection_Refetch ==
  /\ view = "deposits" /\ mainPage
  /\ NewTick
  /\ Len(selected) > 0
  /\ selected' = <<>>
  /\ paramsQueued' = TRUE
  /\ last' = "ClearSelection"
  /\ UNCHANGED <<fetchError, visibleColumns, values, view, locationOverview, showIgnoredAssets, filters, sort, pagination,
                 loading, loadingOld, loadingQueued, loadingWrites, seenRefreshes, refreshes, mountPc,
                 mountFetch, mountCalls, inflight, fetchCount, lastPayload, state,
                 ignorePending>>
  /\ UNCHANGED dialogVars

\* 'clear selection' button: @click="selected = []", shown while selected.length > 0.
ClearSelection ==
  /\ view = "deposits" /\ mainPage
  /\ NewTick
  /\ Len(selected) > 0
  /\ selected' = <<>>
  /\ last' = "ClearSelection"
  /\ UNCHANGED <<fetchError, visibleColumns, values, view, locationOverview, showIgnoredAssets, filters, sort, pagination,
                 paramsQueued, loading, loadingOld, loadingQueued, loadingWrites, seenRefreshes, refreshes, mountPc,
                 mountFetch, mountCalls, inflight, fetchCount, lastPayload, state,
                 ignorePending>>
  /\ UNCHANGED dialogVars

\* IgnoreButtons @ignore="ignore($event)", enabled while rows are selected and
\* the section is not loading.
Ignore ==
  /\ view = "deposits" /\ mainPage
  /\ NewTick
  /\ Len(selected) > 0 /\ ~loading
  /\ ignorePending < MaxIgnores
  /\ ignorePending' = ignorePending + 1
  /\ last' = "Ignore"
  /\ UNCHANGED <<fetchError, visibleColumns, values, view, locationOverview, showIgnoredAssets, filters, sort, pagination,
                 paramsQueued, loading, loadingOld, loadingQueued, loadingWrites, seenRefreshes, refreshes, mountPc,
                 mountFetch, mountCalls, inflight, fetchCount, lastPayload, state,
                 selected>>
  /\ UNCHANGED dialogVars

\* Mutant: the post-ignore callback does not fetch.
IgnoreDone_NoFetch ==
  /\ ignorePending > 0
  /\ NewTick
  /\ NoFetch
  /\ selected' = <<>>
  /\ ignorePending' = ignorePending - 1
  /\ last' = "IgnoreDone"
  /\ UNCHANGED <<fetchError, visibleColumns, values, view, locationOverview, showIgnoredAssets, filters, sort, pagination,
                 paramsQueued, loading, loadingOld, loadingQueued, loadingWrites,
                 seenRefreshes, refreshes, mountPc, mountFetch, mountCalls, state>>
  /\ UNCHANGED dialogVars

\* useIgnore(..., selected, () => fetchData()): the action is done, the
\* selection is cleared and the callback fetches again.
IgnoreDone ==
  /\ ignorePending > 0
  /\ NewTick
  /\ CanFetch
  /\ fetchData
  /\ selected' = <<>>
  /\ ignorePending' = ignorePending - 1
  /\ last' = "IgnoreDone"
  /\ UNCHANGED <<fetchError, visibleColumns, values, view, locationOverview, showIgnoredAssets, filters, sort, pagination,
                 paramsQueued, loading, loadingOld, loadingQueued, loadingWrites, seenRefreshes, refreshes, mountPc,
                 mountFetch, mountCalls, state>>
  /\ UNCHANGED dialogVars

\* VisibleColumnsSelector :group="group": the user switches an optional column
\* on (appended to the setting) or off (removed from it).
ToggleVisibleColumn ==
  /\ view = "nft"
  /\ mountPc # "setup"
  /\ NewTick
  /\ \E c \in TableColumns :
       visibleColumns' = IF includes(visibleColumns, c)
                           THEN SelectSeq(visibleColumns, LAMBDA x : x # c)
                           ELSE Append(visibleColumns, c)
  /\ last' = "ToggleVisibleColumn"
  /\ UNCHANGED <<fetchError, values, view, locationOverview, showIgnoredAssets, filters, sort, pagination,
                 paramsQueued, loading, loadingOld, loadingQueued, loadingWrites, seenRefreshes,
                 refreshes, mountPc, mountFetch, mountCalls, inflight, fetchCount, lastPayload,
                 state, selected, ignorePending>>
  /\ UNCHANGED dialogVars

TableNext ==
  /\ \/ DepositsOnMounted
     \/ NftOnMounted
     \/ FetchResolved
     \/ DepositsWatchLoading
     \/ NftWatchLoading
     \/ RefreshStart
     \/ RefreshComplete
     \/ ToggleShowIgnored
     \/ SetPage
     \/ SetSort
     \/ SetFilters
     \/ ParamsWatch
     \/ AutoRefresh
     \/ SelectRows
     \/ ClearSelection
     \/ Ignore
     \/ IgnoreDone
     \/ ToggleVisibleColumn
  /\ UNCHANGED formVars

SpecTable == TableInit /\ [][TableNext]_vars

DialogInit == DialogState0 /\ TableState0 /\ FormState0 /\ last = "Init"

SpecDialog == DialogInit /\ [][DialogNext]_vars

FormNext ==
  /\ \/ SelectEventType
     \/ SelectEventSubtype
     \/ BlurEventType
     \/ BlurEventSubtype
  /\ UNCHANGED <<dialogVars, tableVars>>

FormSetup == FormInit /\ DialogState0 /\ TableState0 /\ last = "Init"

SpecForm == FormSetup /\ [][FormNext]_vars

\* ------------------------------------------------- claims on the dialog

EventsBy(l, i) == {k \in 1..Len(l) : l[k].by = i}
EventsOf(l, e, i) == {k \in 1..Len(l) : l[k] = Ev(e, i)}

\* C1: when validate() resolves false, confirm() returns without calling save:
\* the step leaves the management state and the dirty flag as they were, no
\* save call, 'complete' event or close is ever recorded for that confirm().
C1_InvalidNeverSaves ==
  [][\A i \in Confirms :
       /\ (confirms[i].pc = "validating" /\ confirms'[i].pc = "invalid")
            => (model' = model /\ stateUpdated' = stateUpdated /\ log' = log)
       /\ confirms'[i].pc = "invalid" => EventsBy(log', i) = {}]_vars

C1_Witness ==
  \E i \in Confirms : confirms[i].pc = "invalid" /\ model # Undefined /\ last = "ConfirmAfterValidate"

\* C2: confirm() closes the dialog only when save(state) resolved true, and then
\* emits 'complete' exactly once, right before the close; when save resolves
\* false the management state is left as it was and nothing is emitted.
C2_CloseOnlyOnSuccess ==
  [][\A i \in Confirms :
       /\ (confirms[i].pc = "saving" /\ confirms'[i].pc = "saved")
            => /\ log' = Append(Append(log, Ev("complete", i)), Ev("close", i))
               /\ model' = Undefined
       /\ (confirms[i].pc = "saving" /\ confirms'[i].pc = "failed")
            => (model' = model /\ log' = log)
       /\ \A k \in EventsOf(log', "close", i) :
            /\ confirms'[i].pc = "saved"
            /\ k > 1 /\ log'[k - 1] = Ev("complete", i)
       /\ Cardinality(EventsOf(log', "complete", i)) <= 1
       /\ EventsOf(log', "complete", i) # {} => confirms'[i].pc = "saved"]_vars

C2_Witness ==
  /\ \E i \in Confirms : confirms[i].pc = "saved" /\ EventsOf(log, "close", i) # {}
  /\ \E j \in Confirms : confirms[j].pc = "failed" /\ model # Undefined

\* C4 (as claimed): in an edit session the dirty flag is true only if the
\* current management state differs structurally from the snapshot E the
\* dialog was opened with.
C4_DirtyOnlyIfDiffersFromInitial ==
  (model # Undefined /\ model.mode = "edit" /\ ~modelQueued /\ stateUpdated)
    => ~isEqual(model, initial)

\* C4 (amended): once the watcher has run, the dirty flag is true only while
\* the dialog is open and the form has changed the management state at least
\* once since it was opened; the comparison is with the state the watcher saw
\* last, not with E, so changing a field back to its value in E keeps it true.
C4_DirtyOnlyAfterEdit ==
  (stateUpdated /\ ~modelQueued) => (model # Undefined /\ edited /\ watchOld = model)

C4_Witness ==
  /\ model # Undefined /\ model.mode = "edit" /\ ~modelQueued
  /\ stateUpdated /\ isEqual(model, initial)

\* C5 (as claimed): a confirm() whose save was in flight when the dialog was
\* dismissed never emits 'complete'.
C5_NoCompleteAfterDismiss ==
  \A i \in Confirms : confirms[i].dismissed => EventsOf(log, "complete", i) = {}

\* C5 (amended): the dismissal itself sets the management state to undefined,
\* calls no save and emits nothing, and leaves every confirm() where it was;
\* a save in flight at the dismissal that later reports success still emits
\* 'complete' once and closes.
C5_DismissHasNoSideEffects ==
  [][/\ last' = "Dismiss" =>
          /\ model' = Undefined
          /\ log' = log
          /\ \A i \in Confirms : confirms'[i].pc = confirms[i].pc
          /\ UNCHANGED <<stateUpdated, errorMessages, session>>
     /\ \A i \in Confirms :
          (confirms[i].dismissed /\ confirms[i].pc = "saving" /\ confirms'[i].pc = "saved")
            => log' = Append(Append(log, Ev("complete", i)), Ev("close", i))]_vars

C5_Witness ==
  \E i \in Confirms :
    /\ confirms[i].dismissed /\ confirms[i].pc = "saved"
    /\ Cardinality(EventsOf(log, "complete", i)) = 1

\* C15: the watcher resets the dirty flag whenever the management state it
\* sees or the one it saw last is undefined, and every change to or from
\* undefined queues the watcher; the flag goes to true only in a run between
\* two defined states with the same chain and structurally different data;
\* once true it is kept by every run between two defined states, and nothing
\* but the watcher writes it.
C15_DirtyFlagLifecycle ==
  [][/\ last' = "WatchModel" =>
          /\ (model = Undefined \/ watchOld = Undefined) => ~stateUpdated'
          /\ (~stateUpdated /\ stateUpdated') =>
               /\ model # Undefined /\ watchOld # Undefined
               /\ model.chain = watchOld.chain
               /\ ~isEqual(model.data, watchOld.data)
          /\ (stateUpdated /\ model # Undefined /\ watchOld # Undefined) => stateUpdated'
     /\ last' # "WatchModel" => stateUpdated' = stateUpdated
     /\ ((model = Undefined) # (model' = Undefined)) => modelQueued'
     /\ (~modelQueued' /\ model' = Undefined) => ~stateUpdated']_vars

\* The flag was set in the second session and kept through a change of chain.
C15_Witness ==
  /\ last = "WatchModel" /\ session = 2 /\ stateUpdated
  /\ model # Undefined /\ model.chain # initial.chain /\ isEqual(model.data, initial.data)

\* C13 (as claimed): a save that resolves successfully closes only the dialog
\* session it was started from: when the dialog was dismissed and opened again
\* with a new management state before the save resolved, the late success
\* leaves the new management state as it is.
C13_LateSuccessKeepsNewSession ==
  [][\A i \in Confirms :
       (/\ confirms[i].pc = "saving" /\ confirms'[i].pc = "saved"
        /\ confirms[i].dismissed
        /\ confirms[i].session # session
        /\ model # Undefined)
         => model' = model]_vars

\* The late success of the first session's save has closed the second session.
C13_Witness ==
  /\ last = "ConfirmAfterSave" /\ model = Undefined /\ modelQueued
  /\ session = 2 /\ initial # Undefined
  /\ \E i \in Confirms :
       /\ confirms[i].pc = "saved" /\ confirms[i].session = 1 /\ confirms[i].dismissed
       /\ log[Len(log)] = Ev("close", i)
  /\ \A j \in Confirms : confirms[j].session # 2

\* ---------------------------------------------- claims on the table views

Started == fetchCount' - fetchCount
NewCall == [id |-> fetchCount + 1, startedAt |-> refreshes]

\* C3: when the watcher of the loading flag runs, it calls fetchData exactly
\* once if the flag went from true (at its last run) to false, however many
\* times the flag was written in between, and not at all otherwise; writing
\* the flag starts no fetch by itself.
C3_OneFetchPerLoadingEnd ==
  [][/\ last' = "WatchLoading" =>
          /\ Started = (IF loadingOld /\ ~loading THEN 1 ELSE 0)
          /\ Started = 1 => inflight' = inflight \cup {NewCall}
     /\ last' \in {"RefreshStart", "RefreshComplete"} => Started = 0]_vars

\* The watcher ran after three writes in one tick (true, false, true, false)
\* and started a fetch.
C3_Witness ==
  /\ last = "WatchLoading" /\ loadingWrites = 3 /\ ~loading
  /\ \E f \in inflight : f.id = fetchCount /\ f.startedAt = refreshes

\* C6: the mount handler calls fetchData once and then the refresh once, and
\* the refresh is not called while the mount-time fetch is unresolved.
C6_MountFetchThenRefresh ==
  /\ mountCalls.fetchData <= 1 /\ mountCalls.refresh <= 1
  /\ mountPc = "setup" => mountCalls = [fetchData |-> 0, refresh |-> 0]
  /\ mountPc = "fetching" =>
       /\ mountCalls = [fetchData |-> 1, refresh |-> 0]
       /\ \E f \in inflight : f.id = mountFetch
  /\ mountPc = "done" =>
       /\ mountCalls = [fetchData |-> 1, refresh |-> 1]
       /\ \A f \in inflight : f.id # mountFetch

C6_Witness == mountPc = "done" /\ mountCalls.refresh = 1 /\ loading /\ last = "FetchResolved"

\* C7 (as claimed): never two fetchData calls in flight at the same time.
C7_NoOverlappingFetches == Cardinality(inflight) <= 1

\* C7 (amended): the view starts one fetchData call per trigger (mount, a
\* loading flag seen going from true to false, an auto-refresh, the post-ignore
\* callback, a change of the request payload), at once and whether or not
\* earlier calls are unresolved; no other step starts a call.
C7_OneFetchPerTrigger ==
  [][/\ Started \in {0, 1}
     /\ Started = 1 =>
          /\ last' \in {"OnMounted", "WatchLoading", "AutoRefresh", "IgnoreDone", "ParamsWatch"}
          /\ inflight' = inflight \cup {NewCall}
     /\ last' \in {"OnMounted", "AutoRefresh", "IgnoreDone", "ParamsWatch"} => Started = 1
     /\ (last' = "WatchLoading" /\ loadingOld /\ ~loading) => Started = 1]_vars

C7_Witness ==
  /\ Cardinality(inflight) >= 2
  /\ last \in {"WatchLoading", "AutoRefresh", "IgnoreDone"}

\* Nothing is queued or running: every fetch has resolved.
Quiescent ==
  /\ mountPc = "done" /\ inflight = {}
  /\ ~loadingQueued /\ ~paramsQueued /\ ignorePending = 0

\* C8 (as claimed): once everything has resolved after a refresh completed, the
\* displayed collection comes from a fetch started no earlier than the last
\* refresh completion. Stated for the states where the latest fetch did not
\* fail, so that a failed fetch is not what refutes it.
C8_NeverStaleAfterRefresh ==
  (Quiescent /\ refreshes > 0 /\ ~fetchError) => state.fetchedAt = refreshes

\* C8 (amended): when the watcher sees the flag go from true to false it
\* starts one fetch in that run, at or after the completion; a write of the
\* flag starts no fetch, and neither does a run of the watcher that does not
\* see the flag go from true to false, whatever completed in between; a fetch
\* that fails leaves the collection as it was and a collection is replaced only
\* by the result of the latest call; once everything has resolved, the
\* displayed collection comes from a fetch started no earlier than the last
\* completion the watcher saw, or the latest fetch failed.
C8_FreshAfterSeenRefresh ==
  [][/\ (last' = "WatchLoading" /\ loadingOld /\ ~loading) =>
          (Started = 1 /\ NewCall \in inflight' /\ seenRefreshes' = refreshes)
     /\ (last' = "WatchLoading" /\ ~(loadingOld /\ ~loading)) =>
          (Started = 0 /\ seenRefreshes' = seenRefreshes)
     /\ last' \in {"RefreshStart", "RefreshComplete"} =>
          (Started = 0 /\ seenRefreshes' = seenRefreshes /\ state' = state)
     /\ (last' = "FetchResolved" /\ state' # state) =>
          (~fetchError' /\ \E f \in inflight :
             f.id = fetchCount /\ state'.fetchedAt = f.startedAt)
     /\ (last' = "FetchResolved" /\ fetchError' /\ ~fetchError) => state' = state
     /\ (Quiescent' /\ seenRefreshes' > 0) =>
          (state'.fetchedAt >= seenRefreshes' \/ fetchError')]_vars

\* Every refresh was seen by the watcher and the last fetch succeeded.
C8_Witness ==
  /\ Quiescent /\ seenRefreshes = MaxRefresh /\ state.fetchedAt = MaxRefresh
  /\ state.data # <<>> /\ ~fetchError

\* C9: the payload's excludeIgnoredAssets is the negation of showIgnoredAssets
\* in every state and in every call of fetchData, a toggle flips the flag
\* and starts no fetch itself, and the fetcher answers it with one call.
C9_ToggleRefetchesOnce ==
  [][/\ view = "deposits" =>
          /\ extraParams.excludeIgnoredAssets = ~showIgnoredAssets
          /\ Started = 1 => lastPayload'.extra = [excludeIgnoredAssets |-> ~showIgnoredAssets']
     /\ last' = "ToggleShowIgnored" =>
          /\ showIgnoredAssets' = ~showIgnoredAssets
          /\ ~paramsQueued /\ paramsQueued' /\ Started = 0
     /\ last' = "ParamsWatch" => (paramsQueued /\ ~paramsQueued' /\ Started = 1)]_vars

C9_Witness ==
  /\ last = "ParamsWatch" /\ showIgnoredAssets
  /\ pagination = 1 /\ sort = "default" /\ filters = "none"
  /\ lastPayload.extra = [excludeIgnoredAssets |-> FALSE]
  /\ \E f \in inflight : f.id = fetchCount

\* C10: selecting rows and clearing the selection start no fetch and leave the
\* filters, the sort, the pagination and the fetched collection as they were;
\* after 'clear selection' the selection is empty.
C10_SelectionHasNoEffect ==
  [][/\ last' \in {"SelectRows", "ClearSelection"} =>
          /\ Started = 0
          /\ UNCHANGED <<filters, sort, pagination, showIgnoredAssets, state, inflight,
                         lastPayload, paramsQueued, loadingQueued, ignorePending>>
     /\ last' = "ClearSelection" => (Len(selected) > 0 /\ selected' = <<>>)]_vars

C10_Witness ==
  /\ last = "ClearSelection" /\ selected = <<>> /\ Len(state.data) = 2

\* Position of a key in a header list (0 when absent).
IndexOf(s, k) == IF \E i \in 1..Len(s) : s[i] = k
                   THEN CHOOSE i \in 1..Len(s) : s[i] = k
                   ELSE 0

\* C11: the deposits/withdrawals headers hold the 'location' column exactly
\* when the view is not scoped to a location: the 7 declared keys in order on
\* the main page, the same keys in the same order without 'location' (6
\* columns) in overview mode.
C11_LocationColumnOmittedInOverview ==
  view = "deposits" =>
    /\ (IndexOf(DepositsTableHeaders(~mainPage), "location") = 0) <=> (locationOverview # "")
    /\ mainPage => DepositsTableHeaders(~mainPage) =
         <<"ignoredInAccounting", "location", "category", "asset", "amount", "fee", "timestamp">>
    /\ ~mainPage => DepositsTableHeaders(~mainPage) =
         <<"ignoredInAccounting", "category", "asset", "amount", "fee", "timestamp">>

C11_Witness ==
  /\ view = "deposits" /\ locationOverview # "" /\ mountPc = "done"
  /\ Len(DepositsTableHeaders(~mainPage)) = 6
  /\ Len(state.data) = 2

\* sel holds exactly the rows of data whose identifier is in V, in the order of data.
IsSelectionOf(sel, data, V) ==
  /\ \A k \in 1..Len(sel) : includes(data, sel[k]) /\ includes(V, sel[k])
  /\ \A i \in 1..Len(data) : includes(V, data[i]) => includes(sel, data[i])
  /\ \A k1, k2 \in 1..Len(sel) :
       k1 < k2 => IndexOf(data, sel[k1]) < IndexOf(data, sel[k2])

\* C14: an assignment of an identifier list V through the selection model sets
\* the selection to exactly the rows of the fetched page whose identifier is in
\* V, in page order (identifiers not on the page are dropped), and changes
\* nothing else; the same holds of every list V for every page a fetch
\* delivers; the selection model reads as the selection on the main page and
\* as undefined in overview mode.
C14_SelectionIsPageRowsInValues ==
  [][/\ last' = "SelectRows" =>
          /\ IsSelectionOf(selected', state.data, values')
          /\ state' = state
     /\ state'.data # state.data =>
          \A V \in IdLists : IsSelectionOf(FilterRows(state'.data, V), state'.data, V)
     /\ view = "deposits" =>
          value = (IF locationOverview # "" THEN <<"undefined">> ELSE selected)]_vars

\* The list <<1, 3>> was assigned while page 2 (rows 2, 3) is shown: row 1 is
\* not on the page and is dropped.
C14_Witness ==
  /\ last = "SelectRows" /\ state.data = <<2, 3>>
  /\ values = <<1, 3>> /\ selected = <<3>> /\ value = <<3>>

\* C12: the NFT headers are name, priceInAsset, usdPrice, then
\* percentageOfTotalNetValue iff the setting includes that column, then
\* percentageOfTotalCurrentGroup iff the setting includes that column, whatever
\* the order of the setting; the count is 3 plus the enabled optional columns
\* and the total row's right-patch colspan is never negative.
C12_NftHeadersFollowVisibleColumns ==
  view = "nft" =>
    LET h == NftTableHeaders(visibleColumns)
        net == includes(visibleColumns, "PERCENTAGE_OF_TOTAL_NET_VALUE")
        grp == includes(visibleColumns, "PERCENTAGE_OF_TOTAL_CURRENT_GROUP")
        n == (IF net THEN 1 ELSE 0) + (IF grp THEN 1 ELSE 0)
    IN /\ SubSeq(h, 1, 3) = <<"name", "priceInAsset", "usdPrice">>
       /\ Len(h) = 3 + n
       /\ net => h[4] = "percentageOfTotalNetValue"
       /\ grp => h[Len(h)] = "percentageOfTotalCurrentGroup"
       /\ (IndexOf(h, "percentageOfTotalNetValue") # 0) <=> net
       /\ (IndexOf(h, "percentageOfTotalCurrentGroup") # 0) <=> grp
       /\ rightPatchColspan(h) = n
       /\ rightPatchColspan(h) >= 0

\* Both optional columns are on, switched on in the reverse order.
C12_Witness ==
  /\ view = "nft" /\ last = "ToggleVisibleColumn"
  /\ visibleColumns = <<"PERCENTAGE_OF_TOTAL_CURRENT_GROUP", "PERCENTAGE_OF_TOTAL_NET_VALUE">>
  /\ NftTableHeaders(visibleColumns) =
       <<"name", "priceInAsset", "usdPrice", "percentageOfTotalNetValue",
         "percentageOfTotalCurrentGroup">>

\* ------------------------------------- claims on the history event type form

\* The sub-type options offered for the current props.
SubTypeOptions ==
  historyEventSubTypeFilteredData(eventType, historyEventSubTypesData, globalMapping)

\* C16: the sub-type options are the full list when eventType is empty; when
\* eventType has an entry in the global mapping, exactly the listed sub-types
\* whose identifier is a key of that entry, in the order of the full list; and
\* the empty list when eventType has no entry.
C16_SubTypeOptionsFollowMapping ==
  LET all == historyEventSubTypesData
      opts == SubTypeOptions
  IN /\ eventType = "" => opts = all
     /\ (eventType # "" /\ eventType \in DOMAIN globalMapping) =>
          /\ \A k \in 1..Len(opts) :
               opts[k] \in globalMapping[eventType] /\ includes(all, opts[k])
          /\ \A i \in 1..Len(all) :
               all[i] \in globalMapping[eventType] => includes(opts, all[i])
          /\ \A k1, k2 \in 1..Len(opts) :
               k1 < k2 => IndexOf(all, opts[k1]) < IndexOf(all, opts[k2])
     /\ (eventType # "" /\ eventType \notin DOMAIN globalMapping) => opts = <<>>

\* The chosen event type maps fee, spend and a key that is no listed sub-type.
C16_Witness ==
  /\ last = "SelectEventType" /\ eventType = "trade"
  /\ "trade" \in DOMAIN globalMapping /\ "deposit" \notin DOMAIN globalMapping
  /\ globalMapping["trade"] = {"fee", "spend", "removed"}
  /\ SubTypeOptions = <<"spend", "fee">>

\* C17: the unknown-combination warning is displayed if and only if
\* disableWarning is false, at least one of the two validators is dirty and the
\* resolved combination has no identifier; it is never displayed while both
\* validators are untouched.
C17_WarningOnlyWhenDirtyAndUnknown ==
  /\ alertDisplayed <=>
       /\ ~disableWarning
       /\ validator.eventType.dirty \/ validator.eventSubtype.dirty
       /\ historyTypeCombination.identifier = "undefined"
  /\ (~validator.eventType.dirty /\ ~validator.eventSubtype.dirty) => ~alertDisplayed

\* The warning shows after the sub-type field alone was touched.
C17_Witness ==
  /\ last = "BlurEventSubtype" /\ alertDisplayed
  /\ ~validator.eventType.dirty /\ validator.eventSubtype.dirty

====
